---- MODULE Spec2Model ----
(***************************************************************************)
(* Union-find image segmentation: the DSU of core/dsu.py and the           *)
(* ImageSegmentation of core/segmentation.py, with the colour metrics of   *)
(* utils/distance_metrics.py as the reference distances.                   *)
(*                                                                         *)
(* The state machines share the variables:                                 *)
(*   SpecDSU  a DSU of n elements driven by arbitrary union / find /       *)
(*            connected / get_size calls;                                  *)
(*   Spec     an ImageSegmentation constructed on an image, on which       *)
(*            segment and then generate_segmented_image are called (as     *)
(*            app.py does, once per instance);                             *)
(*   SpecExample  segment on the 2 x 2 images of the end-to-end example;   *)
(*   SpecArgs     segment with arguments outside the documented ranges;    *)
(*   SpecRepeat   repeated segment calls on one instance;                  *)
(*   SpecOrder    the unions of the merge pass in any order.               *)
(***************************************************************************)
EXTENDS Integers, Sequences, FiniteSets, TLC

VARIABLES
    width,      \* ImageSegmentation.width
    height,     \* ImageSegmentation.height
    image,      \* ImageSegmentation.image: <<y, x>> -> <<r, g, b>>
    pixels,     \* ImageSegmentation.pixels: index -> [x, y, r, g, b]
    parent,     \* DSU.parent
    rank,       \* DSU.rank
    size,       \* DSU.size
    regions,    \* the Region sequence returned by the last segment call
    segmented,  \* the image returned by generate_segmented_image, <<>> before
    last,       \* the segment call made on the instance, with its arguments
    passed      \* history: the pairs {x, y} that were passed to union

vars == <<width, height, image, pixels, parent, rank, size, regions, segmented,
          last, passed>>

----------------------------------------------------------------------------
(* Bounds of the model.                                                    *)

\* SpecDSU: a DSU holds 0..MaxN elements.
MaxN == 4

\* SpecDSU: at most MaxPairs distinct pairs are ever passed to union.
MaxPairs == 3

\* Spec: an image holds at most MaxPixels pixels (width * height).
MaxPixels == 4

----------------------------------------------------------------------------
(* core/dsu.py.  A DSU value is a record [parent, rank, size] of functions *)
(* over 0..n-1; every method is an operator from the DSU before the call   *)
(* to the DSU after it and the value returned.                             *)

Range(n) == 0 .. (n - 1)

\* DSU.__init__
DSUNew(n) ==
    [parent |-> [i \in Range(n) |-> i],
     rank   |-> [i \in Range(n) |-> 0],
     size   |-> [i \in Range(n) |-> 1]]

\* Slip: find that climbs to the root and re-points nothing.
RECURSIVE FindNoCompression(_, _)
FindNoCompression(d, x) ==
    IF d.parent[x] # x
    THEN FindNoCompression(d, d.parent[x])
    ELSE [dsu |-> d, ret |-> x]

\* DSU.find: recursive, with path compression on the way back.
RECURSIVE Find(_, _)
Find(d, x) ==
    IF d.parent[x] # x
    THEN LET r == Find(d, d.parent[x])
         IN  [dsu |-> [r.dsu EXCEPT !.parent[x] = r.ret], ret |-> r.ret]
    ELSE [dsu |-> d, ret |-> d.parent[x]]

\* Slip: the equal-rank branch forgets to add the absorbed size.
UnionRootsSizeSlip(d, root_x, root_y) ==
    IF d.rank[root_x] < d.rank[root_y]
    THEN [d EXCEPT !.parent[root_x] = root_y,
                   !.size[root_y] = d.size[root_y] + d.size[root_x]]
    ELSE IF d.rank[root_x] > d.rank[root_y]
    THEN [d EXCEPT !.parent[root_y] = root_x,
                   !.size[root_x] = d.size[root_x] + d.size[root_y]]
    ELSE [d EXCEPT !.parent[root_y] = root_x,
                   !.rank[root_x] = d.rank[root_x] + 1]

\* Slip: on equal ranks x's root goes under y's root.
UnionRootsTieSlip(d, root_x, root_y) ==
    IF d.rank[root_x] < d.rank[root_y]
    THEN [d EXCEPT !.parent[root_x] = root_y,
                   !.size[root_y] = d.size[root_y] + d.size[root_x]]
    ELSE IF d.rank[root_x] > d.rank[root_y]
    THEN [d EXCEPT !.parent[root_y] = root_x,
                   !.size[root_x] = d.size[root_x] + d.size[root_y]]
    ELSE [d EXCEPT !.parent[root_x] = root_y,
                   !.size[root_y] = d.size[root_y] + d.size[root_x],
                   !.rank[root_y] = d.rank[root_y] + 1]

\* Slip: the equal-rank branch forgets to raise the survivor's rank.
UnionRootsRankSlip(d, root_x, root_y) ==
    IF d.rank[root_x] < d.rank[root_y]
    THEN [d EXCEPT !.parent[root_x] = root_y,
                   !.size[root_y] = d.size[root_y] + d.size[root_x]]
    ELSE IF d.rank[root_x] > d.rank[root_y]
    THEN [d EXCEPT !.parent[root_y] = root_x,
                   !.size[root_x] = d.size[root_x] + d.size[root_y]]
    ELSE [d EXCEPT !.parent[root_y] = root_x,
                   !.size[root_x] = d.size[root_x] + d.size[root_y]]

\* DSU.union: the three rank branches, after the two finds.
UnionRoots(d, root_x, root_y) ==
    IF d.rank[root_x] < d.rank[root_y]
    THEN [d EXCEPT !.parent[root_x] = root_y,
                   !.size[root_y] = d.size[root_y] + d.size[root_x]]
    ELSE IF d.rank[root_x] > d.rank[root_y]
    THEN [d EXCEPT !.parent[root_y] = root_x,
                   !.size[root_x] = d.size[root_x] + d.size[root_y]]
    ELSE [d EXCEPT !.parent[root_y] = root_x,
                   !.size[root_x] = d.size[root_x] + d.size[root_y],
                   !.rank[root_x] = d.rank[root_x] + 1]

\* Slip: union links the elements themselves instead of their roots.
UnionLinksElements(d, x, y) ==
    LET fx == Find(d, x)
        fy == Find(fx.dsu, y)
    IN  IF fx.ret = fy.ret
        THEN [dsu |-> fy.dsu, ret |-> FALSE]
        ELSE [dsu |-> [fy.dsu EXCEPT !.parent[y] = x,
                                     !.size[x] = fy.dsu.size[x] + fy.dsu.size[y]],
              ret |-> TRUE]

\* Slip: union acts only when called from the smaller element.
UnionForwardOnly(d, x, y) ==
    LET fx == Find(d, x)
        fy == Find(fx.dsu, y)
    IN  IF fx.ret = fy.ret \/ x > y
        THEN [dsu |-> fy.dsu, ret |-> FALSE]
        ELSE [dsu |-> UnionRoots(fy.dsu, fx.ret, fy.ret), ret |-> TRUE]

\* DSU.union
Union(d, x, y) ==
    LET fx == Find(d, x)
        fy == Find(fx.dsu, y)
    IN  IF fx.ret = fy.ret
        THEN [dsu |-> fy.dsu, ret |-> FALSE]
        ELSE [dsu |-> UnionRoots(fy.dsu, fx.ret, fy.ret), ret |-> TRUE]

\* DSU.connected
Connected(d, x, y) ==
    LET fx == Find(d, x)
        fy == Find(fx.dsu, y)
    IN  [dsu |-> fy.dsu, ret |-> (fx.ret = fy.ret)]

\* DSU.get_size
GetSize(d, x) ==
    LET fx == Find(d, x)
    IN  [dsu |-> fx.dsu, ret |-> fx.dsu.size[fx.ret]]

\* The DSU held in the variables (self.parent, self.rank, self.size).
Dsu == [parent |-> parent, rank |-> rank, size |-> size]

SetDsu(d) ==
    /\ parent' = d.parent
    /\ rank' = d.rank
    /\ size' = d.size

----------------------------------------------------------------------------
(* SpecDSU: a DSU under arbitrary calls.                                   *)

NoImage ==
    /\ width = 0
    /\ height = 0
    /\ image = <<>>
    /\ pixels = <<>>
    /\ regions = <<>>
    /\ segmented = <<>>

InitDSU ==
    /\ NoImage
    /\ \E n \in 0 .. MaxN :
         /\ parent = DSUNew(n).parent
         /\ rank = DSUNew(n).rank
         /\ size = DSUNew(n).size
    /\ last = [op |-> "new"]
    /\ passed = {}

Elems == DOMAIN parent

imageVars == <<width, height, image, pixels, regions, segmented>>

DoUnion ==
    \E x \in Elems, y \in Elems :
      /\ {x, y} \in passed \/ Cardinality(passed) < MaxPairs
      /\ LET u == Union(Dsu, x, y)
         IN  SetDsu(u.dsu)
      /\ passed' = passed \cup {{x, y}}
      /\ UNCHANGED <<last, imageVars>>

DoFind ==
    \E x \in Elems :
      /\ LET f == Find(Dsu, x)
         IN  SetDsu(f.dsu)
      /\ UNCHANGED <<passed, last, imageVars>>

DoConnected ==
    \E x \in Elems, y \in Elems :
      /\ LET c == Connected(Dsu, x, y)
         IN  SetDsu(c.dsu)
      /\ UNCHANGED <<passed, last, imageVars>>

DoGetSize ==
    \E x \in Elems :
      /\ LET g == GetSize(Dsu, x)
         IN  SetDsu(g.dsu)
      /\ UNCHANGED <<passed, last, imageVars>>

\* One call of any DSU method.
NextDSU == DoUnion \/ DoFind \/ DoConnected \/ DoGetSize

SpecDSU == InitDSU /\ [][NextDSU]_vars

----------------------------------------------------------------------------
(* core/segmentation.py.  The instance state (width, height, pixels, dsu)  *)
(* is held in the variables; the methods read it as the code reads self.   *)

\* The colours an image is drawn from, <<r, g, b>>: black, a dark grey and
\* pure green.
Black == <<0, 0, 0>>
Dark  == <<51, 51, 51>>
Green == <<0, 255, 0>>
Palette == {Black, Dark, Green}

\* The arguments segment is called with.
Thresholds == {0, 100, 230}
MinRegionSizes == {1, 2, 3}
Connectivities == {4, 8}
ColorSpaces == {"RGB", "HSV", "LAB"}

\* ImageSegmentation._extract_pixels: row-major, index y * width + x.
ExtractPixels(img, w, h) ==
    [i \in Range(w * h) |->
        [x |-> i % w,
         y |-> i \div w,
         r |-> img[<<i \div w, i % w>>][1],
         g |-> img[<<i \div w, i % w>>][2],
         b |-> img[<<i \div w, i % w>>][3]]]

Offsets4 == << <<-1, 0>>, <<1, 0>>, <<0, -1>>, <<0, 1>> >>

Offsets8 == << <<-1, -1>>, <<-1, 0>>, <<-1, 1>>, <<0, -1>>,
               <<0, 1>>, <<1, -1>>, <<1, 0>>, <<1, 1>> >>

RECURSIVE FilterOffsets(_, _, _, _)
FilterOffsets(offsets, k, x, y) ==
    IF k > Len(offsets) THEN <<>>
    ELSE LET nx == x + offsets[k][1]
             ny == y + offsets[k][2]
             rest == FilterOffsets(offsets, k + 1, x, y)
         IN  IF 0 <= nx /\ nx < width /\ 0 <= ny /\ ny < height
             THEN <<ny * width + nx>> \o rest
             ELSE rest

\* Slip: only the flat index is range-checked, so a row wraps into the next.
RECURSIVE FilterOffsetsFlat(_, _, _, _)
FilterOffsetsFlat(offsets, k, x, y) ==
    IF k > Len(offsets) THEN <<>>
    ELSE LET nx == x + offsets[k][1]
             ny == y + offsets[k][2]
             rest == FilterOffsetsFlat(offsets, k + 1, x, y)
         IN  IF 0 <= ny * width + nx /\ ny * width + nx < width * height
             THEN <<ny * width + nx>> \o rest
             ELSE rest

GetNeighborsFlat(x, y, connectivity) ==
    FilterOffsetsFlat(IF connectivity = 4 THEN Offsets4 ELSE Offsets8, 1, x, y)

\* ImageSegmentation._get_neighbors
GetNeighbors(x, y, connectivity) ==
    FilterOffsets(IF connectivity = 4 THEN Offsets4 ELSE Offsets8, 1, x, y)

\* ImageSegmentation._color_distance.  The distance is carried as its square
\* (dr*dr + dg*dg + db*db, before the ** 0.5), which is exact in integers;
\* every colour space but 'RGB' gets 0.0.
ColorDistance(pixel1, pixel2, color_space) ==
    IF color_space = "RGB"
    THEN LET dr == pixel1.r - pixel2.r
             dg == pixel1.g - pixel2.g
             db == pixel1.b - pixel2.b
         IN  dr * dr + dg * dg + db * db
    ELSE 0

\* Slip: the comparison is turned round.
DistanceBeyond(distance, color_threshold) ==
    color_threshold >= 0 /\ distance >= color_threshold * color_threshold

\* segment's test `distance <= color_threshold` on a squared distance: a
\* distance is never negative, so it is within a threshold t exactly when
\* t >= 0 and its square is at most t * t.
DistanceWithin(distance, color_threshold) ==
    color_threshold >= 0 /\ distance <= color_threshold * color_threshold

\* segment, the inner loop: the neighbours of pixel i from position k on.
RECURSIVE MergeNeighbors(_, _, _, _, _, _)
MergeNeighbors(d, i, neighbors, k, color_threshold, color_space) ==
    IF k > Len(neighbors) THEN d
    ELSE LET neighbor_idx == neighbors[k]
             distance == ColorDistance(pixels[i], pixels[neighbor_idx], color_space)
             d2 == IF DistanceWithin(distance, color_threshold)
                   THEN Union(d, i, neighbor_idx).dsu
                   ELSE d
         IN  MergeNeighbors(d2, i, neighbors, k + 1, color_threshold, color_space)

\* segment, the outer loop: pixels i, i+1, ... in row-major order.
RECURSIVE MergeFrom(_, _, _, _, _)
MergeFrom(d, i, color_threshold, connectivity, color_space) ==
    IF i >= width * height THEN d
    ELSE MergeFrom(
            MergeNeighbors(d, i,
                           GetNeighbors(pixels[i].x, pixels[i].y, connectivity),
                           1, color_threshold, color_space),
            i + 1, color_threshold, connectivity, color_space)

\* Slip: the merge pass goes on with the DSU the instance already holds.
MergePassKeepsDsu(color_threshold, connectivity, color_space) ==
    MergeFrom(Dsu, 0, color_threshold, connectivity, color_space)

\* segment, the merge pass on a fresh DSU.
MergePass(color_threshold, connectivity, color_space) ==
    MergeFrom(DSUNew(width * height), 0, color_threshold, connectivity, color_space)

\* Slip: a root seen for the first time is put in front of the map.
AddToComponentFront(component_map, root, i) ==
    IF \E k \in 1 .. Len(component_map) : component_map[k].root = root
    THEN [k \in 1 .. Len(component_map) |->
            IF component_map[k].root = root
            THEN [component_map[k] EXCEPT
                    !.pixel_indices = Append(component_map[k].pixel_indices, i)]
            ELSE component_map[k]]
    ELSE <<[root |-> root, pixel_indices |-> <<i>>]>> \o component_map

\* component_map[root].append(i): the dict as the sequence of its items,
\* [root, pixel_indices], in insertion order.
AddToComponent(component_map, root, i) ==
    IF \E k \in 1 .. Len(component_map) : component_map[k].root = root
    THEN [k \in 1 .. Len(component_map) |->
            IF component_map[k].root = root
            THEN [component_map[k] EXCEPT
                    !.pixel_indices = Append(component_map[k].pixel_indices, i)]
            ELSE component_map[k]]
    ELSE Append(component_map, [root |-> root, pixel_indices |-> <<i>>])

\* segment, "Build regions": find(i) for every i, grouped by root.
RECURSIVE BuildComponentMap(_, _, _)
BuildComponentMap(d, i, component_map) ==
    IF i >= width * height THEN [dsu |-> d, component_map |-> component_map]
    ELSE LET f == Find(d, i)
         IN  BuildComponentMap(f.dsu, i + 1, AddToComponent(component_map, f.ret, i))

RECURSIVE SumField(_, _, _)
SumField(pxs, k, field) ==
    IF k > Len(pxs) THEN 0 ELSE pxs[k][field] + SumField(pxs, k + 1, field)

\* A float quotient a / b, kept exact as the pair of its terms.
Quotient(a, b) == [num |-> a, den |-> b]

\* Slip: the centroid sums are divided by one more than the pixel count.
CreateRegionCentroidSlip(region_id, pxs) ==
    [id |-> region_id,
     pixels |-> pxs,
     centroid |-> <<Quotient(SumField(pxs, 1, "x"), Len(pxs) + 1),
                    Quotient(SumField(pxs, 1, "y"), Len(pxs) + 1)>>,
     avg_color |-> <<SumField(pxs, 1, "r") \div Len(pxs),
                     SumField(pxs, 1, "g") \div Len(pxs),
                     SumField(pxs, 1, "b") \div Len(pxs)>>,
     size |-> Len(pxs)]

\* Slip: the average colour is rounded up instead of truncated.
CreateRegionRoundsUp(region_id, pxs) ==
    [id |-> region_id,
     pixels |-> pxs,
     centroid |-> <<Quotient(SumField(pxs, 1, "x"), Len(pxs)),
                    Quotient(SumField(pxs, 1, "y"), Len(pxs))>>,
     avg_color |-> <<(SumField(pxs, 1, "r") + Len(pxs) - 1) \div Len(pxs),
                     (SumField(pxs, 1, "g") + Len(pxs) - 1) \div Len(pxs),
                     (SumField(pxs, 1, "b") + Len(pxs) - 1) \div Len(pxs)>>,
     size |-> Len(pxs)]

\* ImageSegmentation._create_region
CreateRegion(region_id, pxs) ==
    [id |-> region_id,
     pixels |-> pxs,
     centroid |-> <<Quotient(SumField(pxs, 1, "x"), Len(pxs)),
                    Quotient(SumField(pxs, 1, "y"), Len(pxs))>>,
     avg_color |-> <<SumField(pxs, 1, "r") \div Len(pxs),
                     SumField(pxs, 1, "g") \div Len(pxs),
                     SumField(pxs, 1, "b") \div Len(pxs)>>,
     size |-> Len(pxs)]

\* Slip: the size filter is strict.
KeepsRegionStrict(pixel_indices, min_region_size) ==
    Len(pixel_indices) > min_region_size

\* segment's filter `len(pixel_indices) >= min_region_size`.
KeepsRegion(pixel_indices, min_region_size) ==
    Len(pixel_indices) >= min_region_size

\* segment, the loop over component_map.items(); region_id is Len(regs).
RECURSIVE BuildRegions(_, _, _, _)
BuildRegions(component_map, k, min_region_size, regs) ==
    IF k > Len(component_map) THEN regs
    ELSE LET pixel_indices == component_map[k].pixel_indices
             region_pixels == [n \in 1 .. Len(pixel_indices) |->
                                  pixels[pixel_indices[n]]]
         IN  BuildRegions(component_map, k + 1, min_region_size,
                 IF KeepsRegion(pixel_indices, min_region_size)
                 THEN Append(regs, CreateRegion(Len(regs), region_pixels))
                 ELSE regs)

\* ImageSegmentation.segment
SegmentResult(color_threshold, min_region_size, connectivity, color_space) ==
    LET merged == MergePass(color_threshold, connectivity, color_space)
        built == BuildComponentMap(merged, 0, <<>>)
    IN  [dsu |-> built.dsu,
         regions |-> BuildRegions(built.component_map, 1, min_region_size, <<>>)]

\* ImageSegmentation._hsv_to_rgb, each channel already multiplied by 255 and
\* truncated as _generate_distinct_colors does.  The arguments are exact
\* integers: the hue in thousandths of a degree (h * 6 = hue / 60000, its
\* integer part the sector, its fraction f), s in twentieths, v in fifths.
HsvToRgb(hue, s20, v5) ==
    LET i == hue \div 60000
        f == hue % 60000
        v == 51 * v5
        p == (51 * v5 * (20 - s20)) \div 20
        q == (51 * v5 * (1200000 - f * s20)) \div 1200000
        t == (51 * v5 * (1200000 - (60000 - f) * s20)) \div 1200000
    IN  IF i % 6 = 0 THEN <<v, t, p>>
        ELSE IF i % 6 = 1 THEN <<q, v, p>>
        ELSE IF i % 6 = 2 THEN <<p, v, t>>
        ELSE IF i % 6 = 3 THEN <<p, q, v>>
        ELSE IF i % 6 = 4 THEN <<t, p, v>>
        ELSE <<v, p, q>>

\* ImageSegmentation._generate_distinct_colors: colour i (from 0) is entry
\* i + 1 of the sequence.
GenerateDistinctColors(num_colors) ==
    [n \in 1 .. num_colors |->
        LET i == n - 1
            hue == (i * 137508) % 360000
            saturation == 70 + (i % 3) * 15
            value == 80 + (i % 2) * 20
        IN  HsvToRgb(hue, saturation \div 5, value \div 20)]

\* Slip: uncovered pixels keep the zeros of np.zeros_like.
FallbackZeros == <<0, 0, 0>>

\* generate_segmented_image: the colour of a pixel no Region covers.
FallbackColor == <<128, 128, 128>>

\* generate_segmented_image, the first loop: pixel_to_region[(x, y)] =
\* colors[i] for the pixels of region i from position n on; the dict is a
\* function on the keys <<x, y>> set so far.
RECURSIVE MapRegionPixels(_, _, _, _)
MapRegionPixels(pixel_to_region, region_pixels, n, color) ==
    IF n > Len(region_pixels) THEN pixel_to_region
    ELSE MapRegionPixels(
            (<<region_pixels[n].x, region_pixels[n].y>> :> color) @@ pixel_to_region,
            region_pixels, n + 1, color)

RECURSIVE MapRegions(_, _, _, _)
MapRegions(pixel_to_region, regs, i, colors) ==
    IF i > Len(regs) THEN pixel_to_region
    ELSE MapRegions(MapRegionPixels(pixel_to_region, regs[i].pixels, 1, colors[i]),
                    regs, i + 1, colors)

\* ImageSegmentation.generate_segmented_image: an array shaped like
\* self.image, <<y, x>> -> <<r, g, b>>.
GenerateSegmentedImageResult(regs) ==
    LET colors == GenerateDistinctColors(Len(regs))
        pixel_to_region == MapRegions(<<>>, regs, 1, colors)
    IN  [yx \in DOMAIN image |->
            IF <<yx[2], yx[1]>> \in DOMAIN pixel_to_region
            THEN pixel_to_region[<<yx[2], yx[1]>>]
            ELSE FallbackColor]

\* ExportUtils.export_regions_csv, one entry of region_data: every
\* subscript region[key] raises KeyError when the dict has no such key.
ExportRegionRow(region) ==
    IF {"id", "size", "centroid", "avg_color", "bounding_box"} \subseteq DOMAIN region
    THEN [outcome |-> "row",
          id |-> region.id,
          size |-> region.size,
          centroid_x |-> region.centroid[1],
          centroid_y |-> region.centroid[2],
          avg_color_r |-> region.avg_color[1],
          avg_color_g |-> region.avg_color[2],
          avg_color_b |-> region.avg_color[3],
          bbox_x |-> region.bounding_box.x,
          bbox_y |-> region.bounding_box.y,
          bbox_width |-> region.bounding_box.width,
          bbox_height |-> region.bounding_box.height]
    ELSE [outcome |-> "KeyError"]

\* ExportUtils.export_regions_csv: the rows written, or the KeyError of the
\* first Region that cannot be read.
ExportRegionsCsv(regs) ==
    LET region_data == [k \in 1 .. Len(regs) |-> ExportRegionRow(regs[k])]
    IN  IF \E k \in 1 .. Len(regs) : region_data[k].outcome = "KeyError"
        THEN [outcome |-> "KeyError"]
        ELSE [outcome |-> "written", region_data |-> region_data]

----------------------------------------------------------------------------
(* Spec: an ImageSegmentation is constructed on an image and segment is    *)
(* called on it.                                                           *)

Dims == {wh \in (1 .. MaxPixels) \X (1 .. MaxPixels) : wh[1] * wh[2] <= MaxPixels}

\* ImageSegmentation.__init__
Init ==
    /\ \E wh \in Dims :
         /\ width = wh[1]
         /\ height = wh[2]
         /\ image \in [(0 .. wh[2] - 1) \X (0 .. wh[1] - 1) -> Palette]
    /\ pixels = ExtractPixels(image, width, height)
    /\ parent = DSUNew(width * height).parent
    /\ rank = DSUNew(width * height).rank
    /\ size = DSUNew(width * height).size
    /\ regions = <<>>
    /\ segmented = <<>>
    /\ last = [op |-> "init"]
    /\ passed = {}

\* One call segment(color_threshold, min_region_size, connectivity,
\* color_space) on the instance.  segment has no raise statement: whatever
\* the arguments, the call returns its Region list (outcome "returned").
\* `before` keeps the parent array the instance held when the call began.
SegmentCall(color_threshold, min_region_size, connectivity, color_space) ==
    LET res == SegmentResult(color_threshold, min_region_size,
                             connectivity, color_space)
    IN  /\ SetDsu(res.dsu)
        /\ regions' = res.regions
        /\ last' = [op |-> "segment",
                    color_threshold |-> color_threshold,
                    min_region_size |-> min_region_size,
                    connectivity |-> connectivity,
                    color_space |-> color_space,
                    outcome |-> "returned",
                    before |-> parent]
        /\ UNCHANGED <<width, height, image, pixels, segmented, passed>>

Segment ==
    /\ last.op = "init"
    /\ \E color_threshold \in Thresholds, min_region_size \in MinRegionSizes,
          connectivity \in Connectivities, color_space \in ColorSpaces :
         SegmentCall(color_threshold, min_region_size, connectivity, color_space)

\* generate_segmented_image(regions) on the Regions segment returned.
GenerateSegmentedImage ==
    /\ last.op = "segment"
    /\ segmented' = GenerateSegmentedImageResult(regions)
    /\ UNCHANGED <<width, height, image, pixels, parent, rank, size, regions,
                   last, passed>>

Next == Segment \/ GenerateSegmentedImage

Spec == Init /\ [][Next]_vars

----------------------------------------------------------------------------
(* SpecExample: segment on the 2 x 2 images over the four colours of the   *)
(* end-to-end example.                                                     *)

\* ImageSegmentation.__init__ on an image with dimensions from dims and
\* pixel colours from colors.
Constructed(dims, colors) ==
    /\ \E wh \in dims :
         /\ width = wh[1]
         /\ height = wh[2]
         /\ image \in [(0 .. wh[2] - 1) \X (0 .. wh[1] - 1) -> colors]
    /\ pixels = ExtractPixels(image, width, height)
    /\ parent = DSUNew(width * height).parent
    /\ rank = DSUNew(width * height).rank
    /\ size = DSUNew(width * height).size
    /\ regions = <<>>
    /\ segmented = <<>>
    /\ last = [op |-> "init"]
    /\ passed = {}

ExampleColors == {<<10, 10, 10>>, <<12, 10, 11>>, <<200, 200, 200>>, <<255, 255, 255>>}

\* The example image, <<y, x>> -> <<r, g, b>>.
ExampleImage ==
    (<<0, 0>> :> <<10, 10, 10>>) @@ (<<0, 1>> :> <<12, 10, 11>>) @@
    (<<1, 0>> :> <<200, 200, 200>>) @@ (<<1, 1>> :> <<255, 255, 255>>)

\* The example's threshold, and the least integer threshold that joins
\* (200,200,200) and (255,255,255), which are sqrt(3 * 55^2) = 95.26 apart.
ExampleThresholds == {5, 96}

InitExample == Constructed({<<2, 2>>}, ExampleColors)

SegmentExample ==
    /\ last.op = "init"
    /\ \E color_threshold \in ExampleThresholds :
         SegmentCall(color_threshold, 1, 8, "RGB")

NextExample == SegmentExample

SpecExample == InitExample /\ [][NextExample]_vars

----------------------------------------------------------------------------
(* SpecArgs: segment with arguments outside the documented ranges, on      *)
(* images that may have no rows or no columns.                             *)

MaxArgPixels == 2

\* Shapes of image arrays: a numpy shape has no negative entry, so a width
\* or height <= 0 is 0.
ArgDims ==
    {wh \in (0 .. MaxArgPixels) \X (0 .. MaxArgPixels) : wh[1] * wh[2] <= MaxArgPixels}

ArgThresholds == {-1, 0, 230}

ArgMinRegionSizes == {0, 1}

ArgConnectivities == {4, 6, 8}

ArgColorSpaces == {"RGB", "XYZ"}

InitArgs == Constructed(ArgDims, Palette)

SegmentArgs ==
    /\ last.op = "init"
    /\ \E color_threshold \in ArgThresholds, min_region_size \in ArgMinRegionSizes,
          connectivity \in ArgConnectivities, color_space \in ArgColorSpaces :
         SegmentCall(color_threshold, min_region_size, connectivity, color_space)

NextArgs == SegmentArgs

SpecArgs == InitArgs /\ [][NextArgs]_vars

----------------------------------------------------------------------------
(* SpecRepeat: any number of segment calls, with any parameters, on one    *)
(* ImageSegmentation instance.                                             *)

MaxRepeatPixels == 3

RepeatDims ==
    {wh \in (1 .. MaxRepeatPixels) \X (1 .. MaxRepeatPixels) :
        wh[1] * wh[2] <= MaxRepeatPixels}

RepeatThresholds == {0, 230}

RepeatMinRegionSizes == {1, 2}

RepeatColorSpaces == {"RGB", "HSV"}

SegmentAgain ==
    \E color_threshold \in RepeatThresholds, min_region_size \in RepeatMinRegionSizes,
       connectivity \in Connectivities, color_space \in RepeatColorSpaces :
        SegmentCall(color_threshold, min_region_size, connectivity, color_space)

NextRepeat == SegmentAgain

InitRepeat == Constructed(RepeatDims, Palette)

SpecRepeat == InitRepeat /\ [][NextRepeat]_vars

----------------------------------------------------------------------------
(* SpecOrder: the unions of the merge pass applied one at a time, in any   *)
(* order, from either endpoint, any number of times.  The code has one     *)
(* pass only (MergePass); this driver is the family of passes the          *)
(* specification allows as optimisations, built on the code's union.       *)

MaxOrderPixels == 4

OrderDims ==
    {wh \in (1 .. MaxOrderPixels) \X (1 .. MaxOrderPixels) :
        wh[1] * wh[2] <= MaxOrderPixels}

OrderThresholds == {0, 100}

\* The pairs <<i, neighbor_idx>> on which the merge loop of segment calls
\* union: neighbor_idx is a neighbour of i and their distance is within
\* the threshold.
MergeCandidates(color_threshold, connectivity, color_space) ==
    {ij \in Range(width * height) \X Range(width * height) :
        LET neighbors == GetNeighbors(pixels[ij[1]].x, pixels[ij[1]].y, connectivity)
        IN  /\ \E k \in 1 .. Len(neighbors) : neighbors[k] = ij[2]
            /\ DistanceWithin(ColorDistance(pixels[ij[1]], pixels[ij[2]], color_space),
                              color_threshold)}

\* An instance with a DSU of singletons (segment, line 56) and the
\* parameters of the pass.
InitOrder ==
    /\ \E wh \in OrderDims :
         /\ width = wh[1]
         /\ height = wh[2]
         /\ image \in [(0 .. wh[2] - 1) \X (0 .. wh[1] - 1) -> Palette]
    /\ pixels = ExtractPixels(image, width, height)
    /\ parent = DSUNew(width * height).parent
    /\ rank = DSUNew(width * height).rank
    /\ size = DSUNew(width * height).size
    /\ regions = <<>>
    /\ segmented = <<>>
    /\ \E color_threshold \in OrderThresholds, connectivity \in Connectivities :
         last = [op |-> "order",
                 color_threshold |-> color_threshold,
                 connectivity |-> connectivity,
                 color_space |-> "RGB"]
    /\ passed = {}

\* One union of the pass, on any candidate pair.
UnionCandidate ==
    /\ last.op = "order"
    /\ \E ij \in MergeCandidates(last.color_threshold, last.connectivity,
                                  last.color_space) :
         /\ SetDsu(Union(Dsu, ij[1], ij[2]).dsu)
         /\ passed' = passed \cup {{ij[1], ij[2]}}
    /\ UNCHANGED <<width, height, image, pixels, regions, segmented, last>>

NextOrder == UnionCandidate

SpecOrder == InitOrder /\ [][NextOrder]_vars

----------------------------------------------------------------------------
(* Vocabulary of the DSU claims: the root and the parent chain of an       *)
(* element read off a parent array without changing it, and the            *)
(* equivalence generated by the pairs passed to union.                     *)

RECURSIVE RootOf(_, _)
RootOf(par, x) == IF par[x] = x THEN x ELSE RootOf(par, par[x])

RECURSIVE ChainOf(_, _)
ChainOf(par, x) == IF par[x] = x THEN {x} ELSE {x} \cup ChainOf(par, par[x])

SamePartition(par1, par2) ==
    \A a \in DOMAIN par1, b \in DOMAIN par1 :
        (RootOf(par1, a) = RootOf(par1, b)) <=> (RootOf(par2, a) = RootOf(par2, b))

\* The class of x in the smallest equivalence relation containing `pairs`.
RECURSIVE GrowClass(_, _, _)
GrowClass(S, pairs, universe) ==
    LET T == S \cup {z \in universe : \E p \in pairs : z \in p /\ p \cap S # {}}
    IN  IF T = S THEN S ELSE GrowClass(T, pairs, universe)

GeneratedClass(x) == GrowClass({x}, passed, Elems)

ConnectedRet(x, y) == Connected(Dsu, x, y).ret

RECURSIVE SumOver(_, _)
SumOver(S, f) ==
    IF S = {} THEN 0
    ELSE LET e == CHOOSE e \in S : TRUE IN f[e] + SumOver(S \ {e}, f)

-----------------------------------------------------------------------------------
(* utils/distance_metrics.py: the ColorMetric distances, the reference the *)
(* merge decision is compared with.  Each is carried in a form exact in    *)
(* integers on the palette: the RGB and LAB distances as their squares,    *)
(* the HSV distance as 810000 times its square.                            *)

Abs(a) == IF a < 0 THEN -a ELSE a

Max3(a, b, c) ==
    IF a >= b /\ a >= c THEN a ELSE IF b >= c THEN b ELSE c

Min3(a, b, c) ==
    IF a <= b /\ a <= c THEN a ELSE IF b <= c THEN b ELSE c

\* DistanceMetrics._euclidean_distance_rgb, squared.
EuclideanDistanceRgb(pixel1, pixel2) ==
    LET dr == pixel1.r - pixel2.r
        dg == pixel1.g - pixel2.g
        db == pixel1.b - pixel2.b
    IN  dr * dr + dg * dg + db * db

\* DistanceMetrics._rgb_to_hsv: h in degrees, s and v in percent.  The
\* channels stay on the 0..255 scale (the ratios are the same as after
\* / 255.0); the divisions are exact for a colour whose channels take at
\* most two values, both multiples of 51, as the palette's do.
RgbToHsv(r, g, b) ==
    LET max_val == Max3(r, g, b)
        min_val == Min3(r, g, b)
        delta == max_val - min_val
        h6 == IF delta = 0 THEN 0                        \* h * delta
              ELSE IF max_val = r THEN (g - b) % (6 * delta)
              ELSE IF max_val = g THEN (b - r) + 2 * delta
              ELSE (r - g) + 4 * delta
        h == IF delta = 0 THEN 0
             ELSE ((h6 * 60 + 360 * delta) % (360 * delta)) \div delta
        s == IF max_val = 0 THEN 0 ELSE (100 * delta) \div max_val
        v == (100 * max_val) \div 255
    IN  [h |-> h, s |-> s, v |-> v]

\* DistanceMetrics._hsv_distance: 810000 * (h_norm^2 + s_norm^2 + v_norm^2)
\* with h_norm = h_diff / 180, s_norm = (s1 - s2) / 100, v_norm likewise.
HsvDistance(pixel1, pixel2) ==
    LET c1 == RgbToHsv(pixel1.r, pixel1.g, pixel1.b)
        c2 == RgbToHsv(pixel2.r, pixel2.g, pixel2.b)
        h_abs == Abs(c1.h - c2.h)
        h_diff == IF h_abs <= 360 - h_abs THEN h_abs ELSE 360 - h_abs
    IN  25 * h_diff * h_diff
          + 81 * (c1.s - c2.s) * (c1.s - c2.s)
          + 81 * (c1.v - c2.v) * (c1.v - c2.v)

\* DistanceMetrics._rgb_to_lab on the palette, each component rounded to the
\* nearest integer: black (0.0, 0.0, 0.0), dark grey (21.25, 0.00, 0.00),
\* green (87.73, -86.18, 83.18).
RgbToLab(r, g, b) ==
    CASE <<r, g, b>> = Black -> [l |-> 0, a |-> 0, b |-> 0]
      [] <<r, g, b>> = Dark  -> [l |-> 21, a |-> 0, b |-> 0]
      [] <<r, g, b>> = Green -> [l |-> 88, a |-> -86, b |-> 83]

\* DistanceMetrics._lab_distance, squared.
LabDistance(pixel1, pixel2) ==
    LET c1 == RgbToLab(pixel1.r, pixel1.g, pixel1.b)
        c2 == RgbToLab(pixel2.r, pixel2.g, pixel2.b)
        dl == c1.l - c2.l
        da == c1.a - c2.a
        db == c1.b - c2.b
    IN  dl * dl + da * da + db * db

\* DistanceMetrics.calculate_distance(pixel1, pixel2, color_space) <= t.
\* An HSV distance is at most sqrt(3), so every t >= 2 is above it.
CalculateDistanceWithin(pixel1, pixel2, color_space, t) ==
    /\ t >= 0
    /\ CASE color_space = "RGB" -> EuclideanDistanceRgb(pixel1, pixel2) <= t * t
         [] color_space = "HSV" ->
                t >= 2 \/ HsvDistance(pixel1, pixel2) <= 810000 * t * t
         [] color_space = "LAB" -> LabDistance(pixel1, pixel2) <= t * t
         [] OTHER -> EuclideanDistanceRgb(pixel1, pixel2) <= t * t

----------------------------------------------------------------------------
(* Vocabulary of the segmentation claims.                                  *)

Indices == Range(width * height)

Segmented == last.op = "segment"

\* Pixels i and j are neighbours: cardinal steps for connectivity 4,
\* cardinal and diagonal steps for connectivity 8.
Adjacent(i, j, connectivity) ==
    LET dx == Abs(pixels[i].x - pixels[j].x)
        dy == Abs(pixels[i].y - pixels[j].y)
    IN  IF connectivity = 4 THEN dx + dy = 1
        ELSE dx <= 1 /\ dy <= 1 /\ dx + dy >= 1

\* An edge of the within-threshold adjacency graph of the ColorMetric.
Linked(i, j, t, connectivity, color_space) ==
    /\ Adjacent(i, j, connectivity)
    /\ CalculateDistanceWithin(pixels[i], pixels[j], color_space, t)

\* The pixels a chain of such edges reaches from the set S.
RECURSIVE Reach(_, _, _, _)
Reach(S, t, connectivity, color_space) ==
    LET T == S \cup {j \in Indices :
                       \E i \in S : Linked(i, j, t, connectivity, color_space)}
    IN  IF T = S THEN S ELSE Reach(T, t, connectivity, color_space)

\* The component of pixel i in the DSU held by the instance.
ComponentOf(i) == {j \in Indices : RootOf(parent, j) = RootOf(parent, i)}

Components == {ComponentOf(i) : i \in Indices}

\* The pixel indices a Region covers.
RegionIndices(region) ==
    {region.pixels[k].y * width + region.pixels[k].x :
        k \in 1 .. Len(region.pixels)}

Uniform == \A i \in Indices : <<pixels[i].r, pixels[i].g, pixels[i].b>>
                              = <<pixels[0].r, pixels[0].g, pixels[0].b>>

---------------------------------------------------------------------
\* C4: connected is an equivalence relation over [0,n) (reflexive, symmetric,
\* transitive) and relates x and y exactly when the pair is in the smallest
\* equivalence relation containing every pair that was passed to union.
ConnectedIsGeneratedEquivalence ==
    /\ \A x \in Elems : ConnectedRet(x, x)
    /\ \A x \in Elems, y \in Elems : ConnectedRet(x, y) => ConnectedRet(y, x)
    /\ \A x \in Elems, y \in Elems, z \in Elems :
          ConnectedRet(x, y) /\ ConnectedRet(y, z) => ConnectedRet(x, z)
    /\ \A x \in Elems, y \in Elems :
          ConnectedRet(x, y) <=> y \in GeneratedClass(x)

\* C4 witness: x and y are connected although the pair {x, y} itself was
\* never passed to union (they are linked through other pairs), and a third
\* element is connected to neither.
ConnectedWitness ==
    /\ Cardinality(passed) >= 2
    /\ \E x \in Elems, y \in Elems, z \in Elems :
          /\ x # y
          /\ {x, y} \notin passed
          /\ ConnectedRet(x, y)
          /\ ~ConnectedRet(x, z)

\* C5: get_size(x) is the number of elements with the same root as x, and
\* get_size summed over one representative per component is n.
SizeCountsComponent ==
    /\ \A x \in Elems :
          GetSize(Dsu, x).ret =
            Cardinality({y \in Elems : Find(Dsu, y).ret = Find(Dsu, x).ret})
    /\ LET reps == {Find(Dsu, x).ret : x \in Elems}
           sz == [r \in reps |-> GetSize(Dsu, r).ret]
       IN  SumOver(reps, sz) = Cardinality(Elems)

\* C5 witness: a component of at least three elements, grown by two
\* unions, next to a singleton.
SizeWitness ==
    \E x \in Elems, y \in Elems :
        /\ GetSize(Dsu, x).ret >= 3
        /\ GetSize(Dsu, y).ret = 1

\* C6: union(x, y) on elements with the same root returns false and keeps
\* every root, rank and size; otherwise it returns true, puts the lower-rank
\* root under the higher-rank one (equal ranks: y's root under x's root, whose
\* rank grows by one), adds the absorbed size to the survivor's, and keeps
\* the membership of every other component.
UnionEffect ==
    \A x \in Elems, y \in Elems :
      LET u  == Union(Dsu, x, y)
          rx == RootOf(parent, x)
          ry == RootOf(parent, y)
          tie == rank[rx] = rank[ry]
          survivor == IF rank[rx] < rank[ry] THEN ry ELSE rx
          absorbed == IF rank[rx] < rank[ry] THEN rx ELSE ry
      IN  IF rx = ry
          THEN /\ u.ret = FALSE
               /\ \A e \in Elems : RootOf(u.dsu.parent, e) = RootOf(parent, e)
               /\ u.dsu.rank = rank
               /\ u.dsu.size = size
          ELSE /\ u.ret = TRUE
               /\ u.dsu.parent[absorbed] = survivor
               /\ u.dsu.parent[survivor] = survivor
               /\ u.dsu.rank =
                    [rank EXCEPT ![survivor] = IF tie THEN rank[survivor] + 1
                                                     ELSE rank[survivor]]
               /\ u.dsu.size =
                    [size EXCEPT ![survivor] = size[survivor] + size[absorbed]]
               /\ \A e \in Elems :
                    RootOf(u.dsu.parent, e) =
                      IF RootOf(parent, e) \in {rx, ry} THEN survivor
                      ELSE RootOf(parent, e)

\* C6 witness: a DSU in which union meets all three rank cases: a root of
\* rank 1 (built by an earlier equal-rank union) and two roots of rank 0.
UnionWitness ==
    \E a \in Elems, c \in Elems, e \in Elems :
        /\ parent[a] = a /\ parent[c] = c /\ parent[e] = e
        /\ c # e
        /\ rank[a] = 1 /\ rank[c] = 0 /\ rank[e] = 0
        /\ Union(Dsu, c, e).dsu.rank[c] = 1
        /\ Union(Dsu, c, a).dsu.parent[c] = a
        /\ Union(Dsu, a, c).dsu.parent[c] = a
        /\ ~Union(Dsu, a, a).ret

\* C7: find(x) returns the root r of x's tree; afterwards every node of the
\* chain from x to r has parent r, no other parent changed, rank, size and the
\* partition are as before, and a repeated find(x) returns r and changes
\* nothing.
FindEffect ==
    \A x \in Elems :
      LET f == Find(Dsu, x)
          r == RootOf(parent, x)
          chain == ChainOf(parent, x)
      IN  /\ f.ret = r
          /\ parent[r] = r
          /\ \A e \in chain : f.dsu.parent[e] = r
          /\ \A e \in Elems \ chain : f.dsu.parent[e] = parent[e]
          /\ f.dsu.rank = rank
          /\ f.dsu.size = size
          /\ SamePartition(parent, f.dsu.parent)
          /\ Find(f.dsu, x) = [dsu |-> f.dsu, ret |-> r]

\* C7 witness: an element two links below its root, which find re-points,
\* next to an element off its chain that keeps its non-root parent.
FindWitness ==
    \E x \in Elems :
        /\ parent[x] # x
        /\ parent[parent[x]] # parent[x]
        /\ Find(Dsu, x).dsu.parent[x] = RootOf(parent, x)
        /\ Find(Dsu, x).dsu # Dsu

----------------------------------------------------------------------------
\* C1: with colorSpace 'RGB', after the merge pass two pixels are in the same
\* DisjointSet component exactly when a chain of neighbours (under the
\* requested connectivity) with RGB distance <= colorThreshold joins them.
RgbPartitionIsThresholdComponents ==
    (Segmented /\ last.color_space = "RGB" /\ last.color_threshold >= 0) =>
        \A i \in Indices :
            ComponentOf(i) =
                Reach({i}, last.color_threshold, last.connectivity, "RGB")

\* C1 witness: an RGB run on a 2 x 2 image under connectivity 4 that joins
\* two pixels which are not neighbours (through a chain) and keeps a third
\* pixel apart.
RgbPartitionWitness ==
    /\ Segmented /\ last.color_space = "RGB" /\ last.connectivity = 4
    /\ width = 2 /\ height = 2
    /\ \E i \in Indices, j \in Indices, k \in Indices :
         /\ i # j
         /\ ~Adjacent(i, j, 4)
         /\ j \in ComponentOf(i)
         /\ k \notin ComponentOf(i)

\* C2: a Region is returned for a component exactly when the component has
\* at least minRegionSize pixels; each Region holds exactly the pixels of one
\* component, no pixel is in two Regions, and the pixels of smaller
\* components are in no Region.
RegionsAreLargeComponents ==
    Segmented =>
        LET regionSets == {RegionIndices(regions[k]) : k \in 1 .. Len(regions)}
        IN  /\ \A comp \in Components :
                  (Cardinality(comp) >= last.min_region_size) <=> comp \in regionSets
            /\ \A k \in 1 .. Len(regions) :
                  /\ RegionIndices(regions[k]) \in Components
                  /\ Len(regions[k].pixels) = Cardinality(RegionIndices(regions[k]))
                  /\ \A n \in 1 .. Len(regions[k].pixels) :
                        regions[k].pixels[n] \in {pixels[i] : i \in Indices}
            /\ \A k1 \in 1 .. Len(regions), k2 \in 1 .. Len(regions) :
                  k1 # k2 =>
                      RegionIndices(regions[k1]) \cap RegionIndices(regions[k2]) = {}
            /\ \A i \in Indices :
                  Cardinality(ComponentOf(i)) < last.min_region_size =>
                      \A k \in 1 .. Len(regions) : i \notin RegionIndices(regions[k])

\* C2 witness: a run that returns a Region for a component of exactly
\* minRegionSize pixels and drops a smaller component.
RegionsWitness ==
    /\ Segmented
    /\ last.min_region_size >= 2
    /\ \E k \in 1 .. Len(regions) :
         Cardinality(RegionIndices(regions[k])) = last.min_region_size
    /\ \E i \in Indices : Cardinality(ComponentOf(i)) < last.min_region_size

\* C3: with colorSpace 'HSV' or 'LAB' the merge decision uses that colour
\* space's ColorMetric distance, so two pixels that no chain of
\* within-threshold neighbours joins end up in different components.
MetricDecidesMerges ==
    (Segmented /\ last.color_space \in {"HSV", "LAB"}) =>
        \A i \in Indices :
            ComponentOf(i) \subseteq
                Reach({i}, last.color_threshold, last.connectivity, last.color_space)

\* C8: on a uniform-colour image, with minRegionSize <= w*h, segment returns
\* exactly one Region, of size w*h, holding every pixel, with centroid
\* ((w-1)/2, (h-1)/2).
UniformImageIsOneRegion ==
    (Segmented /\ Uniform /\ last.min_region_size <= width * height) =>
        /\ Len(regions) = 1
        /\ regions[1].size = width * height
        /\ RegionIndices(regions[1]) = Indices
        /\ Len(regions[1].pixels) = width * height
        /\ 2 * regions[1].centroid[1].num = (width - 1) * regions[1].centroid[1].den
        /\ 2 * regions[1].centroid[2].num = (height - 1) * regions[1].centroid[2].den

\* C8 witness: a uniform 2 x 2 image segmented with threshold 0 and
\* minRegionSize 3.
UniformWitness ==
    /\ Segmented /\ Uniform
    /\ width = 2 /\ height = 2
    /\ last.color_threshold = 0
    /\ last.min_region_size = 3
    /\ Len(regions) = 1

\* Every pixel differs from each of its neighbours by more than the
\* threshold, in the requested colour space.
AllNeighboursDiffer ==
    \A i \in Indices, j \in Indices :
        ~Linked(i, j, last.color_threshold, last.connectivity, last.color_space)

\* C9: when every pixel differs from each neighbour by more than
\* colorThreshold, segment returns no Region for minRegionSize > 1 and w*h
\* Regions of size 1, one per pixel, for minRegionSize = 1.
IsolatedPixelsAreSingletons ==
    (Segmented /\ AllNeighboursDiffer) =>
        IF last.min_region_size > 1
        THEN Len(regions) = 0
        ELSE /\ Len(regions) = width * height
             /\ \A k \in 1 .. Len(regions) : regions[k].size = 1
             /\ \A i \in Indices :
                   \E k \in 1 .. Len(regions) : RegionIndices(regions[k]) = {i}

\* C10: for thresholds t1 <= t2 (same image, connectivity and colour space)
\* every component at t1 lies inside one component at t2, which is therefore
\* no smaller.
ThresholdMonotone ==
    Segmented =>
        \A t2 \in Thresholds :
            last.color_threshold <= t2 =>
                LET par2 == MergePass(t2, last.connectivity, last.color_space).parent
                IN  \A i \in Indices :
                      LET comp2 == {j \in Indices : RootOf(par2, j) = RootOf(par2, i)}
                      IN  /\ ComponentOf(i) \subseteq comp2
                          /\ Cardinality(ComponentOf(i)) <= Cardinality(comp2)

\* C10 witness: an RGB run at threshold 0 that leaves several components, on
\* an image that the largest threshold merges into strictly fewer.
MonotoneWitness ==
    /\ Segmented /\ last.color_space = "RGB" /\ last.color_threshold = 0
    /\ Cardinality(Components) = 3
    /\ LET par2 == MergePass(230, last.connectivity, "RGB").parent
       IN  Cardinality({RootOf(par2, i) : i \in Indices}) = 2

----------------------------------------------------------------------------
\* The element reached from x by k parent links.
RECURSIVE AncestorAt(_, _, _)
AncestorAt(par, x, k) == IF k = 0 THEN x ELSE AncestorAt(par, par[x], k - 1)

\* C19: in every reachable DSU state every non-root x has
\* rank[parent[x]] > rank[x]; so ranks rise strictly along a parent chain,
\* no chain returns to an element it left (no cycle), every chain reaches a
\* root within n links, and find ends at that root.
RankRisesToParent ==
    /\ \A x \in Elems : parent[x] # x => rank[parent[x]] > rank[x]
    /\ \A x \in Elems :
          \A k \in 1 .. Cardinality(Elems) :
              AncestorAt(parent, x, k) = x => parent[x] = x
    /\ \A x \in Elems :
          \E k \in 0 .. Cardinality(Elems) - 1 :
              LET a == AncestorAt(parent, x, k)
              IN  parent[a] = a /\ Find(Dsu, x).ret = a

\* C19 witness: a chain of two links, x below a rank-1 node below a rank-2
\* root, built by equal-rank unions.
RankWitness ==
    \E x \in Elems :
        /\ parent[x] # x
        /\ parent[parent[x]] # parent[x]
        /\ rank[x] = 0
        /\ rank[parent[x]] = 1
        /\ rank[parent[parent[x]]] = 2

\* Smallest and largest row-major index among a Region's pixels.
MinIndex(region) ==
    CHOOSE i \in RegionIndices(region) : \A j \in RegionIndices(region) : i <= j

MaxIndex(region) ==
    CHOOSE i \in RegionIndices(region) : \A j \in RegionIndices(region) : i >= j

\* C16: the Regions segment returns carry the ids 0, 1, ..., k-1 in the order
\* of the returned sequence, and the sequence is ordered by strictly
\* increasing smallest member pixel index (y * width + x).
RegionsOrderedByFirstPixel ==
    Segmented =>
        /\ \A k \in 1 .. Len(regions) : regions[k].id = k - 1
        /\ \A k, l \in 1 .. Len(regions) :
              k < l => MinIndex(regions[k]) < MinIndex(regions[l])

\* Three Regions are returned and the first one reaches past the first pixel
\* of a later one, so the order is that of the first pixels only.
RegionsOrderWitness ==
    /\ Segmented
    /\ Len(regions) = 3
    /\ MaxIndex(regions[1]) > MinIndex(regions[2])

\* The minimal axis-aligned rectangle covering a Region's pixels.
MinOf(S) == CHOOSE a \in S : \A b \in S : a <= b

MaxOf(S) == CHOOSE a \in S : \A b \in S : a >= b

BoundingBoxOf(region) ==
    LET xs == {region.pixels[k].x : k \in 1 .. Len(region.pixels)}
        ys == {region.pixels[k].y : k \in 1 .. Len(region.pixels)}
    IN  [x |-> MinOf(xs), y |-> MinOf(ys),
         width |-> MaxOf(xs) - MinOf(xs) + 1,
         height |-> MaxOf(ys) - MinOf(ys) + 1]

\* C15: every Region segment returns carries a bounding_box, the minimal
\* axis-aligned rectangle covering its pixels (x = min x, y = min y,
\* width = max x - min x + 1, height = max y - min y + 1), and
\* export_regions_csv can read it for every Region.
RegionsCarryBoundingBox ==
    Segmented =>
        /\ \A k \in 1 .. Len(regions) :
              /\ "bounding_box" \in DOMAIN regions[k]
              /\ regions[k].bounding_box = BoundingBoxOf(regions[k])
        /\ ExportRegionsCsv(regions).outcome = "written"

\* generate_segmented_image has returned an image.
Rendered == DOMAIN segmented # {}

\* The positions of the returned Regions that hold pixel index i.
RegionsCovering(i) == {k \in 1 .. Len(regions) : i \in RegionIndices(regions[k])}

\* C14: the image generate_segmented_image returns for the Regions of
\* segment has the width and height of the source image; every pixel of
\* Region number k has the k-th palette colour, and every pixel in no
\* returned Region has the colour (128,128,128).
RenderedImagePaintsRegions ==
    Rendered =>
        /\ DOMAIN segmented = (0 .. height - 1) \X (0 .. width - 1)
        /\ \A i \in Indices :
              LET yx == <<i \div width, i % width>>
              IN  /\ \A k \in RegionsCovering(i) :
                        segmented[yx] = GenerateDistinctColors(Len(regions))[k]
                  /\ RegionsCovering(i) = {} => segmented[yx] = <<128, 128, 128>>

\* A rendered image with a Region of several pixels and a pixel that the
\* size filter left in no Region.
RenderedWitness ==
    /\ Rendered
    /\ \E k \in 1 .. Len(regions) : regions[k].size >= 2
    /\ \E i \in Indices : RegionsCovering(i) = {}

\* segment returned a Region with exactly the pixel indices `cover` and the
\* average colour avg.
HasRegion(cover, avg) ==
    \E k \in 1 .. Len(regions) :
        /\ RegionIndices(regions[k]) = cover
        /\ regions[k].size = Cardinality(cover)
        /\ regions[k].avg_color = avg

\* The call of the end-to-end example was made on the example image.
ExampleCall(color_threshold) ==
    /\ Segmented
    /\ image = ExampleImage
    /\ last.color_threshold = color_threshold
    /\ last.min_region_size = 1
    /\ last.connectivity = 8
    /\ last.color_space = "RGB"

\* C11 as stated: on the example image, segment with threshold 5,
\* min_region_size 1, 8-connectivity and RGB returns exactly two Regions,
\* {(0,0),(1,0)} with avg_color (11,10,10) and {(0,1),(1,1)} with avg_color
\* (227,227,227).
ExampleGivesTwoRegions ==
    ExampleCall(5) =>
        /\ Len(regions) = 2
        /\ HasRegion({0, 1}, <<11, 10, 10>>)
        /\ HasRegion({2, 3}, <<227, 227, 227>>)

\* C11, amended: with threshold 5 the call returns exactly three Regions,
\* {(0,0),(1,0)} with avg_color (11,10,10) and the singletons (0,1) with
\* (200,200,200) and (1,1) with (255,255,255), which are 95.26 apart; the two
\* Regions of the example are what threshold 96 returns.
ExampleGivesThreeRegions ==
    /\ ExampleCall(5) =>
          /\ Len(regions) = 3
          /\ HasRegion({0, 1}, <<11, 10, 10>>)
          /\ HasRegion({2}, <<200, 200, 200>>)
          /\ HasRegion({3}, <<255, 255, 255>>)
    /\ ExampleCall(96) =>
          /\ Len(regions) = 2
          /\ HasRegion({0, 1}, <<11, 10, 10>>)
          /\ HasRegion({2, 3}, <<227, 227, 227>>)

ExampleWitness == ExampleCall(5) /\ Len(regions) = 3

\* The last segment call had an argument outside its documented range, or
\* an image without rows or columns.
InvalidArguments ==
    \/ last.color_threshold < 0
    \/ last.min_region_size < 1
    \/ last.connectivity \notin {4, 8}
    \/ width <= 0
    \/ height <= 0

\* C12: a segment call with color_threshold < 0, min_region_size < 1,
\* connectivity outside {4, 8}, or an image of width <= 0 or height <= 0
\* ends in InvalidArgument: no union was performed on the DSU and no Region
\* sequence was returned.
InvalidArgumentsRejected ==
    (Segmented /\ InvalidArguments) =>
        /\ last.outcome = "InvalidArgument"
        /\ regions = <<>>
        /\ parent = last.before

\* C13: segment called with a color_space other than 'RGB', 'HSV' or 'LAB'
\* returns the Region sequence of the same call with color_space 'RGB'.
UnknownColorSpaceIsRgb ==
    (Segmented /\ last.color_space \notin {"RGB", "HSV", "LAB"}) =>
        regions = SegmentResult(last.color_threshold, last.min_region_size,
                                last.connectivity, "RGB").regions

\* What segment returns on an instance just constructed for the same image:
\* the merge loop and the region loop run from a DSU of singletons.
FreshMerge(color_threshold, connectivity, color_space) ==
    MergeFrom(DSUNew(width * height), 0, color_threshold, connectivity, color_space)

FreshRegions(color_threshold, min_region_size, connectivity, color_space) ==
    BuildRegions(
        BuildComponentMap(FreshMerge(color_threshold, connectivity, color_space),
                          0, <<>>).component_map,
        1, min_region_size, <<>>)

\* C18: however many segment calls came before on the instance, the last
\* call returned the Region sequence the same call returns on a freshly
\* constructed instance, and left the partition such a call leaves: no merge
\* of an earlier call survives.
SegmentCallsAreIndependent ==
    Segmented =>
        /\ regions = FreshRegions(last.color_threshold, last.min_region_size,
                                  last.connectivity, last.color_space)
        /\ SamePartition(parent,
                         FreshMerge(last.color_threshold, last.connectivity,
                                    last.color_space).parent)

\* The call began on a DSU in which an earlier call had merged two pixels,
\* and returned them in different components.
IndependentWitness ==
    /\ Segmented
    /\ \E i, j \in Indices :
          /\ i # j
          /\ RootOf(last.before, i) = RootOf(last.before, j)
          /\ RootOf(parent, i) # RootOf(parent, j)

\* Every unordered pair the merge loop unites has been passed to union at
\* least once, from one endpoint or the other.
OrderComplete ==
    /\ last.op = "order"
    /\ \A ij \in MergeCandidates(last.color_threshold, last.connectivity,
                                  last.color_space) : {ij[1], ij[2]} \in passed

\* C17: once every within-threshold neighbour pair has been united, in
\* whatever order, from whichever endpoint, once or several times, the
\* partition of the pixels is that of the pass of segment, which visits
\* every pair from both endpoints in row-major order.
MergeOrderIsIrrelevant ==
    OrderComplete =>
        SamePartition(parent,
                      MergePass(last.color_threshold, last.connectivity,
                                last.color_space).parent)

\* A complete pass over several pairs that built another forest than the
\* pass of segment does.
MergeOrderWitness ==
    /\ OrderComplete
    /\ Cardinality(passed) >= 2
    /\ parent # MergePass(last.color_threshold, last.connectivity,
                          last.color_space).parent

====
